---- MODULE Spec2Model ----
(***************************************************************************)
(* The signup endpoint of v4/main.go: the usersStore handler, the          *)
(* ResponseWriter it writes to, the validator rules it declares and the    *)
(* gorm calls it makes on the users table.  Several handler goroutines     *)
(* serve requests concurrently against one shared table.                   *)
(***************************************************************************)
EXTENDS Integers, Sequences, FiniteSets, TLC

\* ---------------------------------------------------------------- bounds
\* Total number of requests the server accepts in one behaviour.
MaxRequests == 3

\* Handler goroutines that may be in flight at the same time.
Handlers == {1, 2}

\* ------------------------------------------------------ program constants
StatusOK == 200
StatusCreated == 201
StatusMethodNotAllowed == 405
StatusUnprocessableEntity == 422
EmailMin == 4
EmailMax == 30
PasswordMin == 8
PasswordMax == 255

JSONType == "application/json"
FormType == "application/x-www-form-urlencoded"

\* ----------------------------------------------------------------- inputs
EmailA == "jason@mccallister.io"
EmailB == "ann@example.org"
LongEmail == "aaaaaaaaaaaaaaaaaaaaaaaaa@b.org"
PasswordP == "somePassword1!"
PasswordQ == "otherPassword2?"
LongPassword == "pppppppppppppppppppppppppppppppppppppppppppppppppppppppppppppppppppppppppppppppppppppppppppppppppppppppppppppppppppppppppppppppppppppppppppppppppppppppppppppppppppppppppppppppppppppppppppppppppppppppppppppppppppppppppppppppppppppppppppppppppppppppppppppppp"

Emails == {"", "abc", "not an email", LongEmail, EmailA, EmailB}
Passwords == {"", "short", LongPassword, PasswordP, PasswordQ}
Salts == {"s1", "s2"}

\* A request body: Body == nil ("nil", what http.NewRequest gives for a nil
\* reader), a zero-length body ("empty"), text that is no JSON ("garbage"),
\* text that is neither JSON nor a decodable form ("badescape", e.g. %zz),
\* or a JSON object whose absent fields decode to "".
NoFields == [email |-> "", password |-> ""]
Body(kind, email, password) == [kind |-> kind, email |-> email, password |-> password]
ObjectBodies == {Body("object", e, p) : e \in Emails, p \in Passwords}
OtherBodies == {Body(k, "", "") : k \in {"nil", "empty", "garbage", "badescape"}}

Request(method, ctype, body) == [method |-> method, ctype |-> ctype, body |-> body]
Requests ==
    {Request("POST", JSONType, b) : b \in ObjectBodies \cup OtherBodies}
    \cup {Request("POST", FormType, b) : b \in OtherBodies \cup {Body("object", EmailA, PasswordP)}}
    \cup {Request(m, JSONType, b) : m \in {"GET", "PUT"},
                                     b \in {Body("nil", "", ""), Body("object", EmailA, PasswordP)}}
    \cup {Request(m, FormType, Body("empty", "", "")) : m \in {"GET", "PUT"}}

VARIABLES
    store,      \* the users table: rows [id, email, password]
    nextID,     \* the table's auto-increment counter
    pc,         \* each handler's position in usersStore
    r,          \* the *http.Request a handler is serving
    w,          \* its http.ResponseWriter
    req,        \* its userStoreRequest
    newUser,    \* its newUser
    dbErr,      \* whether a gorm call of the request returned an Error (discarded)
    trace,      \* the pipeline steps the request has performed, in order
    writes,     \* rows the request has inserted
    hist,       \* what was true when the request began (earlier answers, rows)
    served,     \* the 201 answers given so far: [email, password, id]
    started     \* requests accepted so far

vars == <<store, nextID, pc, r, w, req, newUser, dbErr, trace, writes, hist, served, started>>

\* ------------------------------------------------- http.ResponseWriter
\* header is the live header map's content-type, code the status written (0:
\* none yet), sent the content-type that went out with the status line.
NoData == [kind |-> "none"]
NewWriter == [header |-> "", code |-> 0, sent |-> "", body |-> NoData]

HeaderSet(rw, value) == [rw EXCEPT !.header = value]

\* Only the first WriteHeader counts; the headers go out with it.
WriteHeader(rw, code) ==
    IF rw.code # 0 THEN rw ELSE [rw EXCEPT !.code = code, !.sent = rw.header]

\* Write sends an implicit 200 when no status was written.
Write(rw, data) == [WriteHeader(rw, StatusOK) EXCEPT !.body = data]

ErrorJSON == [kind |-> "error", error |-> "method not allowed"]
ErrorsJSON(e) == [kind |-> "errors", errors |-> e]
IDJSON(id) == [kind |-> "id", id |-> id]

\* ------------------------------------------------------ request checks
MethodNotPost_onlyGet(request) == request.method = "GET"

MethodNotPost(request) == request.method # "POST"

\* r.ParseForm(): a POST without a Body is "missing form body"; a form
\* content type makes it read and decode the body, any other leaves it alone.
ParseFormErr(request) ==
    \/ request.method \in {"POST", "PUT", "PATCH"} /\ request.body.kind = "nil"
    \/ request.ctype = FormType /\ request.body.kind = "badescape"

\* What is left of the body for the JSON decoder after ParseForm.
BodyLeft(request) ==
    IF request.ctype = FormType THEN "empty" ELSE request.body.kind

\* ------------------------------------------------------------ validator
Rule(name, n) == [name |-> name, n |-> n]

Rules ==
    [email |-> <<Rule("required", 0), Rule("min", EmailMin), Rule("max", EmailMax), Rule("email", 0)>>,
     password |-> <<Rule("required", 0), Rule("min", PasswordMin), Rule("max", PasswordMax)>>]

Fields == DOMAIN Rules

CharAt(str, i) == SubSeq(str, i, i)

\* The shape the email rule accepts: one "@" with text before it and a dotted
\* host after it, no blanks.
IsEmail(str) ==
    LET n == Len(str)
        ats == {i \in 1..n : CharAt(str, i) = "@"}
    IN /\ Cardinality(ats) = 1
       /\ \A i \in 1..n : CharAt(str, i) # " "
       /\ \E a \in ats :
            /\ a > 1
            /\ \E d \in (a + 2)..(n - 1) : CharAt(str, d) = "."

Violates(rule, value) ==
    CASE rule.name = "required" -> value = ""
      [] rule.name = "min" -> Len(value) < rule.n
      [] rule.name = "max" -> Len(value) > rule.n
      [] rule.name = "email" -> ~IsEmail(value)

Message(field, rule) ==
    CASE rule.name = "required" -> "The " \o field \o " field is required"
      [] rule.name = "min" ->
           "The " \o field \o " field must be minimum " \o ToString(rule.n) \o " char"
      [] rule.name = "max" ->
           "The " \o field \o " field must be maximum " \o ToString(rule.n) \o " char"
      [] rule.name = "email" -> "The " \o field \o " field must be a valid email address"

FieldErrors_failFast(field, value) ==
    LET bad == SelectSeq(Rules[field], LAMBDA rule : Violates(rule, value))
    IN IF bad = <<>> THEN <<>> ELSE <<Message(field, bad[1])>>

\* Every rule of the field is applied; each violated one adds its message.
FieldErrors(field, value) ==
    LET bad == SelectSeq(Rules[field], LAMBDA rule : Violates(rule, value))
    IN [k \in 1..Len(bad) |-> Message(field, bad[k])]

\* The decoder fills req from the body that is left, or reports why not.
Decode(request) ==
    LET left == BodyLeft(request)
    IN CASE request.body.kind = "object" /\ left = "object" ->
              [ok |-> TRUE, msg |-> "",
               fields |-> [email |-> request.body.email, password |-> request.body.password]]
         [] left \in {"garbage", "badescape"} ->
              [ok |-> FALSE, msg |-> "invalid character", fields |-> NoFields]
         [] OTHER -> [ok |-> FALSE, msg |-> "EOF", fields |-> NoFields]

\* v.ValidateJSON(): the bag of messages, keyed by field; a body that does not
\* decode gives the single key _error and no rule is applied.
ValidateJSON(request) ==
    LET d == Decode(request)
        fe == [f \in Fields |-> FieldErrors(f, d.fields[f])]
    IN IF ~d.ok THEN [f \in {"_error"} |-> <<d.msg>>]
       ELSE [f \in {g \in Fields : fe[g] # <<>>} |-> fe[f]]

HasErrors_offByOne(e) == Cardinality(DOMAIN e) > 1

HasErrors(e) == Cardinality(DOMAIN e) >= 1

\* -------------------------------------------------------------- bcrypt
Bcrypt_plaintext(password, salt) == password

\* bcrypt.GenerateFromPassword at MinCost with a fresh salt.  The digest is
\* kept symbolic: equal digests mean equal salt and password, and the text is
\* never the password itself.
Bcrypt(password, salt) == "$2a$04$" \o salt \o "$" \o password

\* ---------------------------------------------------------------- gorm
NoUser == [ID |-> 0, Email |-> "", Password |-> ""]

\* A struct condition compares the fields of the struct that are not blank.
Matches(row, u) ==
    /\ u.ID # 0 => row.id = u.ID
    /\ u.Email # "" => row.email = u.Email
    /\ u.Password # "" => row.password = u.Password

MinRow(rows) == CHOOSE x \in rows : \A y \in rows : x.id <= y.id

ToUser(row) == [ID |-> row.id, Email |-> row.email, Password |-> row.password]

\* FirstOrCreate's SELECT: the rows the condition struct matches.
FirstWhere(rows, u) == {x \in rows : Matches(x, u)}

\* db.First(out): ordered by primary key, limited to one row; of out itself
\* only a non-zero primary key becomes a condition.
First(rows, out) ==
    LET cand == {x \in rows : out.ID # 0 => x.id = out.ID}
    IN IF cand = {} THEN out ELSE ToUser(MinRow(cand))

UniqueViolation_noIndex(rows, email) == FALSE

\* The unique index on users.email.
UniqueViolation(rows, email) == \E x \in rows : x.email = email

InsertRow_dropped(rows, id, u) == rows

InsertRow(rows, id, u) ==
    rows \cup {[id |-> id, email |-> u.Email, password |-> u.Password]}

\* ----------------------------------------------------------- usersStore
NoRequest == Request("", "", Body("nil", "", ""))
NoReq == [Email |-> "", Password |-> ""]
NoHist == [prior |-> {}, fresh |-> FALSE, raced |-> FALSE]

StoreSteps == {"find", "create", "read"}

\* The handler up to the first gorm call: the header, the method check, the
\* form parse, the validation, the early 201, the hash and newUser.  next is
\* where the handler stands afterwards.  The validator has decoded the body
\* into req and read it to its end, so the ReadAll and Unmarshal that follow
\* the early 201 find nothing and leave req as the validator filled it.
Pipeline(request, salt) ==
    LET w0 == HeaderSet(NewWriter, JSONType)
        d == Decode(request)
        e == ValidateJSON(request)
        decoded == [Email |-> d.fields.email, Password |-> d.fields.password]
    IN IF MethodNotPost(request)
       THEN [w |-> Write(WriteHeader(w0, StatusMethodNotAllowed), ErrorJSON),
             req |-> NoReq, newUser |-> NoUser, trace |-> <<"method">>, next |-> "done"]
       ELSE IF ParseFormErr(request)
       THEN [w |-> Write(WriteHeader(w0, StatusUnprocessableEntity), ErrorJSON),
             req |-> NoReq, newUser |-> NoUser, trace |-> <<"method", "parse">>, next |-> "done"]
       ELSE IF HasErrors(e)
       THEN [w |-> Write(WriteHeader(w0, StatusUnprocessableEntity), ErrorsJSON(e)),
             req |-> decoded, newUser |-> NoUser,
             trace |-> <<"method", "parse", "validate">>, next |-> "done"]
       ELSE [w |-> WriteHeader(w0, StatusCreated),
             req |-> decoded,
             newUser |-> [ID |-> 0, Email |-> decoded.Email,
                          Password |-> Bcrypt(decoded.Password, salt)],
             trace |-> <<"method", "parse", "validate", "hash">>, next |-> "find"]

\* Pipeline over the inputs of the model, evaluated once.
PipelineOf == [request \in Requests, salt \in Salts |-> Pipeline(request, salt)]

Init ==
    /\ store = {}
    /\ nextID = 1
    /\ pc = [i \in Handlers |-> "idle"]
    /\ r = [i \in Handlers |-> NoRequest]
    /\ w = [i \in Handlers |-> NewWriter]
    /\ req = [i \in Handlers |-> NoReq]
    /\ newUser = [i \in Handlers |-> NoUser]
    /\ dbErr = [i \in Handlers |-> FALSE]
    /\ trace = [i \in Handlers |-> <<>>]
    /\ writes = [i \in Handlers |-> 0]
    /\ hist = [i \in Handlers |-> NoHist]
    /\ served = {}
    /\ started = 0

\* A request arrives, goes to the first free goroutine, and the handler runs up
\* to its first gorm call.
Serve(i) ==
    /\ pc[i] = "idle"
    /\ \A j \in Handlers : j < i => pc[j] # "idle"
    /\ started < MaxRequests
    /\ \E request \in Requests, salt \in Salts :
         LET p == PipelineOf[request, salt]
             fresh == ~\E x \in store : x.email = p.req.Email
             rivals == {j \in Handlers \ {i} :
                          /\ p.next = "find" /\ fresh
                          /\ pc[j] \in {"find", "create"}
                          /\ newUser[j].Email = p.req.Email
                          /\ hist[j].fresh}
             mine == [prior |-> {s.id : s \in {t \in served :
                                     t.email = p.req.Email /\ t.password = p.req.Password}},
                      fresh |-> fresh,
                      raced |-> rivals # {}]
         IN /\ r' = [r EXCEPT ![i] = request]
            /\ w' = [w EXCEPT ![i] = p.w]
            /\ req' = [req EXCEPT ![i] = p.req]
            /\ newUser' = [newUser EXCEPT ![i] = p.newUser]
            /\ trace' = [trace EXCEPT ![i] = p.trace]
            /\ pc' = [pc EXCEPT ![i] = p.next]
            /\ hist' = [j \in Handlers |->
                          IF j = i THEN (IF p.next = "find" THEN mine ELSE NoHist)
                          ELSE IF j \in rivals THEN [hist[j] EXCEPT !.raced = TRUE]
                          ELSE hist[j]]
    /\ started' = started + 1
    /\ UNCHANGED <<store, nextID, dbErr, writes, served>>

\* db.FirstOrCreate(&user{}, newUser), first statement: SELECT ... WHERE the
\* non-blank fields of newUser match, LIMIT 1.
FirstOrCreateSelect(i) ==
    /\ pc[i] = "find"
    /\ pc' = [pc EXCEPT ![i] = IF FirstWhere(store, newUser[i]) # {} THEN "read" ELSE "create"]
    /\ trace' = [trace EXCEPT ![i] = Append(@, "find")]
    /\ UNCHANGED <<store, nextID, r, w, req, newUser, dbErr, writes, hist, served, started>>

\* db.FirstOrCreate, second statement, when nothing matched: INSERT the
\* condition's fields.  The unique index rejects a stored email; the Error
\* comes back in the *gorm.DB the handler drops.
FirstOrCreateInsert(i) ==
    /\ pc[i] = "create"
    /\ IF UniqueViolation(store, newUser[i].Email)
       THEN /\ dbErr' = [dbErr EXCEPT ![i] = TRUE]
            /\ UNCHANGED <<store, nextID, writes>>
       ELSE /\ store' = InsertRow(store, nextID, newUser[i])
            /\ nextID' = nextID + 1
            /\ writes' = [writes EXCEPT ![i] = @ + 1]
            /\ UNCHANGED dbErr
    /\ pc' = [pc EXCEPT ![i] = "read"]
    /\ trace' = [trace EXCEPT ![i] = Append(@, "create")]
    /\ UNCHANGED <<r, w, req, newUser, hist, served, started>>

\* db.First(&newUser), then the response: the id of what First loaded.
FirstAndRespond(i) ==
    /\ pc[i] = "read"
    /\ LET loaded == First(store, newUser[i])
       IN /\ newUser' = [newUser EXCEPT ![i] = loaded]
          /\ w' = [w EXCEPT ![i] = Write(WriteHeader(w[i], StatusCreated), IDJSON(loaded.ID))]
    /\ pc' = [pc EXCEPT ![i] = "done"]
    /\ trace' = [trace EXCEPT ![i] = Append(@, "read")]
    /\ UNCHANGED <<store, nextID, r, req, dbErr, writes, hist, served, started>>

\* The handler returns; the goroutine is free for the next request.
Return(i) ==
    /\ pc[i] = "done"
    /\ served' = IF w[i].code = StatusCreated /\ w[i].body.kind = "id"
                 THEN served \cup {[email |-> req[i].Email, password |-> req[i].Password,
                                    id |-> w[i].body.id]}
                 ELSE served
    /\ pc' = [pc EXCEPT ![i] = "idle"]
    /\ r' = [r EXCEPT ![i] = NoRequest]
    /\ w' = [w EXCEPT ![i] = NewWriter]
    /\ req' = [req EXCEPT ![i] = NoReq]
    /\ newUser' = [newUser EXCEPT ![i] = NoUser]
    /\ dbErr' = [dbErr EXCEPT ![i] = FALSE]
    /\ trace' = [trace EXCEPT ![i] = <<>>]
    /\ writes' = [writes EXCEPT ![i] = 0]
    /\ hist' = [hist EXCEPT ![i] = NoHist]
    /\ UNCHANGED <<store, nextID, started>>

Next ==
    \E i \in Handlers :
        \/ Serve(i)
        \/ FirstOrCreateSelect(i)
        \/ FirstOrCreateInsert(i)
        \/ FirstAndRespond(i)
        \/ Return(i)

Spec == Init /\ [][Next]_vars

\* ---------------------------------------------------------------- claims
Range(seq) == {seq[k] : k \in DOMAIN seq}

\* The rules of a field that a value violates, read off the rule table.
Violated(f, value) == {k \in DOMAIN Rules[f] : Violates(Rules[f][k], value)}

SatisfiesRules(body) == \A f \in Fields : Violated(f, body[f]) = {}

\* A POST whose JSON body reaches the validator and passes every rule.
WellFormed ==
    {q \in Requests : /\ q.method = "POST" /\ q.ctype = JSONType
                      /\ q.body.kind = "object" /\ SatisfiesRules(q.body)}

\* A POST whose JSON body reaches the validator and violates some rule.
RuleBreaking ==
    {q \in Requests : /\ q.method = "POST" /\ q.ctype = JSONType
                      /\ q.body.kind = "object" /\ ~SatisfiesRules(q.body)}

RowsOf(email) == {x \in store : x.email = email}

NoStoreAccess(i) ==
    /\ Range(trace[i]) \cap StoreSteps = {}
    /\ writes[i] = 0
    /\ ~dbErr[i]

\* C1: a well-formed POST is answered 201, and when the handler is finished
\* the table holds a row with the submitted email and a non-zero id.
C1_SignupStored ==
    \A i \in Handlers :
        pc[i] = "done" /\ r[i] \in WellFormed =>
            /\ w[i].code = StatusCreated
            /\ \E x \in RowsOf(r[i].body.email) : x.id # 0

C1_Witness ==
    \E i \in Handlers :
        /\ pc[i] = "done" /\ r[i] \in WellFormed
        /\ writes[i] = 1 /\ Cardinality(store) = 2
        /\ w[i].code = StatusCreated

\* C2: the id of a 201 answer is the id of the row holding the submitted
\* email, so answers for different emails carry different ids.
C2_IdOfSubmittedEmail ==
    /\ \A i \in Handlers :
         pc[i] = "done" /\ w[i].code = StatusCreated =>
             \E x \in RowsOf(req[i].Email) : x.id = w[i].body.id
    /\ \A s, t \in served : s.email # t.email => s.id # t.id

\* C3: a body that was already answered 201 is answered 201 again with the
\* same id, its email has exactly one row, and no call of the second request
\* failed.
C3_Idempotent ==
    \A i \in Handlers :
        pc[i] = "done" /\ hist[i].prior # {} =>
            /\ w[i].code = StatusCreated
            /\ hist[i].prior = {w[i].body.id}
            /\ Cardinality(RowsOf(req[i].Email)) = 1
            /\ ~dbErr[i]

\* C4: a POST whose decoded fields break a rule is answered 422 with one
\* message for each violated rule of each field (the five of the missing-field
\* case spelled out), and the request never touches the table.
C4_AllViolationsReported ==
    \A i \in Handlers :
        pc[i] = "done" /\ r[i] \in RuleBreaking =>
            LET b == r[i].body
                e == w[i].body.errors
            IN /\ w[i].code = StatusUnprocessableEntity
               /\ w[i].body.kind = "errors"
               /\ \A f \in Fields :
                    \/ Violated(f, b[f]) = {} /\ f \notin DOMAIN e
                    \/ /\ Violated(f, b[f]) # {} /\ f \in DOMAIN e
                       /\ Range(e[f]) = {Message(f, Rules[f][k]) : k \in Violated(f, b[f])}
                       /\ Len(e[f]) = Cardinality(Violated(f, b[f]))
               /\ (b.email = "" /\ b.password = "" =>
                     e = [email |-> <<"The email field is required",
                                      "The email field must be minimum 4 char",
                                      "The email field must be a valid email address">>,
                          password |-> <<"The password field is required",
                                         "The password field must be minimum 8 char">>])
               /\ NoStoreAccess(i)

C4_Witness ==
    \E i \in Handlers :
        /\ pc[i] = "done" /\ r[i] \in RuleBreaking
        /\ r[i].body.email = "" /\ r[i].body.password = ""
        /\ store # {}
        /\ Len(w[i].body.errors["email"]) = 3

C6_EmptyBodyRejected ==
    \A i \in Handlers :
        r[i].method = "POST" /\ r[i].body.kind \in {"nil", "empty"} =>
            /\ pc[i] = "done"
            /\ w[i].code = StatusUnprocessableEntity
            /\ trace[i] \in {<<"method", "parse">>, <<"method", "parse", "validate">>}
            /\ NoStoreAccess(i)

C6_Witness ==
    \E i, j \in Handlers :
        /\ pc[i] = "done" /\ r[i].method = "POST" /\ r[i].body.kind = "nil"
        /\ w[i].body = ErrorJSON
        /\ pc[j] = "done" /\ r[j].method = "POST" /\ r[j].body.kind = "empty"
        /\ w[j].body.kind = "errors"

\* C7: however the table steps of concurrent signups for one new email
\* interleave, the email never has two rows, and each of those requests is
\* answered 201 with the id of the email's row.
C7_RaceResolved ==
    /\ \A e \in Emails : Cardinality(RowsOf(e)) <= 1
    /\ \A i \in Handlers :
         pc[i] = "done" /\ hist[i].raced =>
             /\ w[i].code = StatusCreated
             /\ \E x \in RowsOf(req[i].Email) : x.id = w[i].body.id

\* C8: the password is hashed before the request's first table step, and no
\* row (and no newUser on its way to the table) holds a submitted plaintext.
C8_HashedBeforeStore ==
    /\ \A i \in Handlers : \A k \in DOMAIN trace[i] :
         trace[i][k] \in StoreSteps => \E h \in 1..(k - 1) : trace[i][h] = "hash"
    /\ \A i \in Handlers :
         pc[i] \in StoreSteps => newUser[i].Password # req[i].Password
    /\ \A x \in store : x.password \notin Passwords

C8_Witness ==
    \E i \in Handlers :
        /\ pc[i] = "done" /\ writes[i] = 1
        /\ \E x \in RowsOf(req[i].Email) :
             x.password = Bcrypt(req[i].Password, "s2")

\* C9: a request one of whose table calls failed is answered with a JSON
\* error and an error status, not 201.
C9_StoreErrorSurfaced ==
    \A i \in Handlers :
        pc[i] = "done" /\ dbErr[i] =>
            /\ w[i].code >= 400
            /\ w[i].body.kind = "error"

\* C10: a table step of a signup whose email already has a row changes no row
\* and adds none; no step ever changes or removes a row; a request inserts at
\* most once.
C10_ExistingRowUntouched ==
    [][/\ store \subseteq store'
       /\ \A i \in Handlers :
            (pc[i] \in StoreSteps /\ pc'[i] # pc[i] /\ RowsOf(req[i].Email) # {})
                => store' = store
       /\ \A i \in Handlers : writes'[i] <= 1]_vars

C10_Witness ==
    \E i \in Handlers :
        /\ pc[i] = "read" /\ dbErr[i]
        /\ \E x \in RowsOf(req[i].Email) : x.password # newUser[i].Password
        /\ Cardinality(store) = 2

====
